---- MODULE Spec2Model ----
(***************************************************************************)
(* Window tracking and multi-stream capture loop of src/main.py:           *)
(* find_windows / append_window / resize_window, capture_loop and the      *)
(* overlay's update_regions / paintEvent / closeEvent.                     *)
(*                                                                         *)
(* Two threads: the UI thread (closeEvent, paintEvent) and the capture     *)
(* thread (capture_loop).  The desktop (the windows, their rectangles and  *)
(* their z-order, which is the order the platform enumerates them in) is   *)
(* the environment.  The capture thread reads the desktop only inside      *)
(* find_windows, so the desktop's changes are taken between two ticks      *)
(* (after time.sleep, before the loop condition): a change at any other    *)
(* point of a tick is seen by the program exactly as the same change made  *)
(* there.  The desktop starts tiled, with MaxWindows windows (all open,   *)
(* or the first one only) or with more windows than the pool has slots,    *)
(* all of one size, and its first MaxWindows windows are changed up to     *)
(* MaxEnvSteps times.  SpecFind runs the first tick on every placement of  *)
(* MaxFindWindows windows, for the claims about find_windows' list.        *)
(***************************************************************************)
EXTENDS Integers, Sequences, FiniteSets, TLC

\* ---------------------------------------------------------------- constants
EXPECTED_WIDTH == 464
EXPECTED_HEIGHT == 838
\* len(video_writers): [None] * 10
PoolSize == 10

\* ------------------------------------------------------------------- bounds
\* windows of the desktop that are moved, resized, closed, ... during a run
MaxWindows == 2
\* changes of the desktop (move, resize, close, ...) in one run
MaxEnvSteps == 1
\* windows beyond the pool's capacity on a crowded desktop
ExtraWindows == 1
\* windows of the desktops that find_windows is applied to in SpecFind
MaxFindWindows == 3

Hwnds == 1..MaxWindows
\* the (left, top) of the k-th window of a tiled desktop
TileCorner(k) == <<10 + 500 * (k % 4), 10 + 900 * (k \div 4)>>
\* (left, top) positions a window is moved to; <<0, 0>> is the screen origin
Corners == {<<0, 0>>, TileCorner(1), TileCorner(2)}
\* (width, height) of a window: the expected template and another size
Sizes == {<<EXPECTED_WIDTH, EXPECTED_HEIGHT>>, <<200, 300>>}
Platforms == {"win32", "darwin"}
\* (left, top) positions of the desktops of SpecFind: at and next to the
\* edge that append_window skips, and in two rows
FindCorners == {<<0, 0>>, <<1, 10>>, <<510, 1>>, <<2, 2>>, <<510, 10>>, <<10, 400>>}

VARIABLES
    SYSTEM_OS,      \* sys.platform, fixed for the run
    windows,        \* desktop: hwnd -> [status, exact, left, top, width, height]
    zorder,         \* desktop: the order the platform enumerates the windows in
    envSteps,       \* number of desktop changes so far
    stop_event,     \* threading.Event: is_set()
    regions,        \* overlay.regions
    pc,             \* capture thread: "loop", "slot", "sleep", "drain", "done", "crashed"
    error,          \* the exception that ended the capture thread, or "none"
    rects,          \* capture_loop's rects of the current tick
    i,              \* capture_loop's index in enumerate(rects)
    video_writers,  \* capture_loop's video_writers: 0..PoolSize-1 -> writer
    lastWrite,      \* the last video_writers[i].write(bgr) of the current tick
    access,         \* which thread has read or written which shared object
    stopAt          \* where the capture thread was when stop_event was set

vars == <<SYSTEM_OS, windows, zorder, envSteps, stop_event, regions, pc, error,
          rects, i, video_writers, lastWrite, access, stopAt>>

env == <<windows, zorder, envSteps>>

\* video_writers[i] is None
None == [init |-> FALSE, w |-> 0, h |-> 0, hwnd |-> 0, written |-> FALSE, released |-> 0]
NoWrite == [slot |-> -1, w |-> 0, h |-> 0, hwnd |-> 0]
\* stop_event is not set, or was set between two ticks
NotInTick == [ordinal |-> -1, empty |-> FALSE]

\* ------------------------------------------------------------ find_windows

\* append_window that skips a window only when it is left of or above pixel 1
append_windowStrict(rs, hwnd, wins) ==
    LET w == wins[hwnd] IN
    IF \E k \in 1..Len(rs) : rs[k].left = w.left /\ rs[k].top = w.top
    THEN rs
    ELSE IF w.left < 1 \/ w.top < 1
    THEN rs
    ELSE Append(rs, [left |-> w.left, top |-> w.top,
                     width |-> w.width, height |-> w.height, hwnd |-> hwnd])

\* append_window that replaces the rectangle it holds at the window's position
append_windowLast(rs, hwnd, wins) ==
    LET w == wins[hwnd]
        r == [left |-> w.left, top |-> w.top,
              width |-> w.width, height |-> w.height, hwnd |-> hwnd]
    IN
    IF w.left <= 1 \/ w.top <= 1
    THEN rs
    ELSE IF \E k \in 1..Len(rs) : rs[k].left = w.left /\ rs[k].top = w.top
    THEN [k \in 1..Len(rs) |-> IF rs[k].left = w.left /\ rs[k].top = w.top THEN r ELSE rs[k]]
    ELSE Append(rs, r)

\* append_window(rects, w): the rectangle carries the window's handle, which
\* the code's dict does not hold; nothing of the program reads it.
append_window(rs, hwnd, wins) ==
    LET w == wins[hwnd] IN
    IF \E k \in 1..Len(rs) : rs[k].left = w.left /\ rs[k].top = w.top
    THEN rs
    ELSE IF w.left <= 1 \/ w.top <= 1
    THEN rs
    ELSE Append(rs, [left |-> w.left, top |-> w.top,
                     width |-> w.width, height |-> w.height, hwnd |-> hwnd])

\* gw.getWindowsWithTitle(title): the windows whose title contains the query,
\* in the platform's enumeration order
getWindowsWithTitle(order, wins) ==
    SelectSeq(order, LAMBDA hwnd : wins[hwnd].status # "closed")

\* for w in gw.getWindowsWithTitle(title): skip or append_window
RECURSIVE AppendLoop(_, _, _)
AppendLoop(rs, ws, wins) ==
    IF ws = <<>> THEN rs
    ELSE LET hwnd == Head(ws) IN
         IF wins[hwnd].status = "minimized"
         THEN AppendLoop(rs, Tail(ws), wins)
         ELSE AppendLoop(append_window(rs, hwnd, wins), Tail(ws), wins)

\* list_window_positions(): the visible titled windows, in enumeration order.
\* A minimized window is listed by the platform at its off-screen rectangle,
\* which equals no rectangle of rects, so it is left out here.
list_window_positions(order, wins) ==
    SelectSeq(order, LAMBDA hwnd : wins[hwnd].status = "shown")

\* resize_window(title, x, y, width, height): the first listed window whose
\* title equals the query at (x, y); selected_hwnd is unbound when there is none
resize_window(order, wins, x, y) ==
    LET found == SelectSeq(list_window_positions(order, wins),
                     LAMBDA hwnd : wins[hwnd].exact
                                   /\ wins[hwnd].left = x /\ wins[hwnd].top = y)
    IN IF found = <<>>
       THEN [ok |-> FALSE, wins |-> wins]
       ELSE [ok |-> TRUE,
             wins |-> [wins EXCEPT ![Head(found)].width = EXPECTED_WIDTH,
                                   ![Head(found)].height = EXPECTED_HEIGHT]]

\* for rect in rects: resize_window(...) when the size is not the expected one
RECURSIVE ResizeLoop(_, _, _)
ResizeLoop(rs, order, wins) ==
    IF rs = <<>> THEN [ok |-> TRUE, wins |-> wins]
    ELSE LET rect == Head(rs) IN
         IF rect.width # EXPECTED_WIDTH \/ rect.height # EXPECTED_HEIGHT
         THEN LET r == resize_window(order, wins, rect.left, rect.top) IN
              IF r.ok THEN ResizeLoop(Tail(rs), order, r.wins) ELSE r
         ELSE ResizeLoop(Tail(rs), order, wins)

\* KeyLE with the key (r['left'], r['top'])
KeyLELeftFirst(a, b) == a.left < b.left \/ (a.left = b.left /\ a.top <= b.top)

\* key=lambda r: (r['top'], r['left'])
KeyLE(a, b) == a.top < b.top \/ (a.top = b.top /\ a.left <= b.left)

\* insertion of r into a sorted list after the elements whose key is <= r's
RECURSIVE Insert(_, _)
Insert(r, s) ==
    IF s = <<>> THEN <<r>>
    ELSE IF KeyLE(Head(s), r) THEN <<Head(s)>> \o Insert(r, Tail(s))
    ELSE <<r>> \o s

\* Sort that leaves the list in the order of enumeration
SortNone(s) == s

\* rects.sort(key=...): a stable sort
RECURSIVE Sort(_)
Sort(s) == IF s = <<>> THEN <<>> ELSE Insert(s[Len(s)], Sort(SubSeq(s, 1, Len(s) - 1)))

\* WindowCapture(title).window on darwin: one window of that title, or None (0)
DarwinWindows(wins) ==
    IF \E hwnd \in DOMAIN wins : wins[hwnd].status # "closed"
    THEN {hwnd \in DOMAIN wins : wins[hwnd].status # "closed"}
    ELSE {0}

\* find_windows(title) with wc.window = pick on darwin:
\* [ok, rects, wins]: ok is FALSE when resize_window raised
find_windows(os, order, wins, pick) ==
    IF os = "win32"
    THEN LET rs == AppendLoop(<<>>, getWindowsWithTitle(order, wins), wins)
             r == ResizeLoop(rs, order, wins)
         IN [ok |-> r.ok, rects |-> Sort(rs), wins |-> r.wins]
    ELSE LET rs == IF pick # 0 /\ wins[pick].status # "minimized"
                   THEN append_window(<<>>, pick, wins)
                   ELSE <<>>
         IN [ok |-> TRUE, rects |-> Sort(rs), wins |-> wins]


\* ------------------------------------------------------------ capture_loop

\* int(w * 2), int(h * 2) on darwin: the pixel density of the grabbed frame
Scale(os) == IF os = "darwin" THEN 2 ELSE 1

\* LazyInit with the writer made anew when the rectangle's size has changed
LazyInitResized(vw, r, os) ==
    IF vw = None \/ vw.w # r.width * Scale(os) \/ vw.h # r.height * Scale(os)
    THEN [init |-> TRUE, w |-> r.width * Scale(os), h |-> r.height * Scale(os),
          hwnd |-> r.hwnd, written |-> FALSE, released |-> 0]
    ELSE vw

\* the lazy initialization of video_writers[i]: a writer of the rectangle's
\* (scaled) size when the slot is None, and the slot's writer otherwise
LazyInit(vw, r, os) ==
    IF vw = None
    THEN [init |-> TRUE, w |-> r.width * Scale(os), h |-> r.height * Scale(os),
          hwnd |-> r.hwnd, written |-> FALSE, released |-> 0]
    ELSE vw

\* np.array(sct.grab(rect)): the frame has the rectangle's size, in the
\* platform's pixel density
Grab(r, os) == [w |-> r.width * Scale(os), h |-> r.height * Scale(os), hwnd |-> r.hwnd]

\* SlotOf with every rectangle recorded to the first slot
SlotOfFirst(n) == 0

\* SlotOf counting the rectangles from 1
SlotOfShifted(n) == n + 1

\* the index of video_writers that rects[i] is recorded to
SlotOf(n) == n

\* update_regions that keeps the shown regions when the new list is empty
update_regionsNonEmpty(old, rs) == IF rs = <<>> THEN old ELSE rs

\* OverlayWindow.update_regions(regions): self.regions = regions
update_regions(old, rs) == rs

\* AfterFind that enters the for loop whatever the list
AfterFindAlways(rs) == "slot"

\* if rects: the for loop is entered with a non-empty list only
AfterFind(rs) == IF rs # <<>> THEN "slot" ELSE "sleep"

\* while not stop_event.is_set(): rects = find_windows(...);
\* overlay.update_regions(rects); if rects: for i, r in enumerate(rects)
BeginTick ==
    /\ pc = "loop"
    /\ ~stop_event
    /\ \E pick \in (IF SYSTEM_OS = "darwin" THEN DarwinWindows(windows) ELSE {0}) :
         LET f == find_windows(SYSTEM_OS, zorder, windows, pick) IN
         /\ windows' = f.wins
         /\ IF f.ok
            THEN /\ rects' = f.rects
                 /\ regions' = update_regions(regions, f.rects)
                 /\ i' = 0
                 /\ pc' = AfterFind(f.rects)
                 /\ error' = error
                 /\ access' = access \cup {<<"capture", "read", "stop_event">>,
                                           <<"capture", "write", "regions">>}
            ELSE /\ pc' = "crashed"
                 /\ error' = "resize_window"
                 /\ access' = access \cup {<<"capture", "read", "stop_event">>}
                 /\ UNCHANGED <<rects, regions, i>>
    /\ lastWrite' = NoWrite
    /\ UNCHANGED <<SYSTEM_OS, stopAt, zorder, envSteps, stop_event, video_writers>>

\* one iteration of the for loop: lazy initialization, grab, write
SlotWrite ==
    /\ pc = "slot"
    /\ SlotOf(i) < PoolSize
    /\ LET r == rects[i + 1]
           vw == LazyInit(video_writers[SlotOf(i)], r, SYSTEM_OS)
           frame == Grab(r, SYSTEM_OS)
       IN /\ video_writers' = [video_writers EXCEPT ![SlotOf(i)] = [vw EXCEPT !.written = TRUE]]
          /\ lastWrite' = [slot |-> SlotOf(i), w |-> frame.w, h |-> frame.h, hwnd |-> frame.hwnd]
    /\ i' = i + 1
    /\ pc' = IF i + 1 < Len(rects) THEN "slot" ELSE "sleep"
    /\ UNCHANGED <<SYSTEM_OS, stopAt, env, stop_event, regions, error, rects, access>>

\* sct.grab or video_writers[i].write raises: nothing catches it
SlotFails ==
    /\ pc = "slot"
    /\ SlotOf(i) < PoolSize
    /\ video_writers' = [video_writers EXCEPT
                           ![SlotOf(i)] = LazyInit(video_writers[SlotOf(i)], rects[i + 1], SYSTEM_OS)]
    /\ pc' = "crashed"
    /\ error' = "grab_or_write"
    /\ UNCHANGED <<SYSTEM_OS, stopAt, env, stop_event, regions, rects, i, lastWrite, access>>

\* video_writers[i] with i >= len(video_writers): IndexError
SlotIndexError ==
    /\ pc = "slot"
    /\ SlotOf(i) >= PoolSize
    /\ pc' = "crashed"
    /\ error' = "IndexError"
    /\ UNCHANGED <<SYSTEM_OS, stopAt, env, stop_event, regions, rects, i, video_writers, lastWrite, access>>

\* video_writer.release(): released counts the calls, a call that raises too
Release(vw) == [vw EXCEPT !.released = vw.released + 1]

\* EndOfTick with the release loop inside the while loop
EndOfTickReleases(vws) == [n \in DOMAIN vws |-> IF vws[n] # None THEN Release(vws[n]) ELSE vws[n]]

\* the body of the while loop ends at the sleep: the release loop is after
\* the while loop, no writer is touched between two ticks
EndOfTick(vws) == vws

\* time.sleep(CAPTURE_INTERVAL)
Sleep ==
    /\ pc = "sleep"
    /\ pc' = "loop"
    /\ video_writers' = EndOfTick(video_writers)
    /\ UNCHANGED <<SYSTEM_OS, stopAt, env, stop_event, regions, error, rects, i, lastWrite, access>>

\* the loop condition is found false: print("Stopping capture...")
BeginDrain ==
    /\ pc = "loop"
    /\ stop_event
    /\ pc' = "drain"
    /\ access' = access \cup {<<"capture", "read", "stop_event">>}
    /\ UNCHANGED <<SYSTEM_OS, stopAt, env, stop_event, regions, error, rects, i, video_writers, lastWrite>>

\* DrainLoop that ends after the first writer it releases
DrainLoopFirstOnly(vws, upto) ==
    [n \in DOMAIN vws |->
        IF n <= upto /\ vws[n] # None /\ (\A m \in DOMAIN vws : m < n => vws[m] = None)
        THEN Release(vws[n])
        ELSE vws[n]]

\* for video_writer in video_writers: release the ones that are not None, up
\* to the slot `upto` (PoolSize - 1 when no release raises)
DrainLoop(vws, upto) ==
    [n \in DOMAIN vws |-> IF n <= upto /\ vws[n] # None THEN Release(vws[n]) ELSE vws[n]]

\* the drain, every release returning
Drain ==
    /\ pc = "drain"
    /\ video_writers' = DrainLoop(video_writers, PoolSize - 1)
    /\ pc' = "done"
    /\ UNCHANGED <<SYSTEM_OS, stopAt, env, stop_event, regions, error, rects, i, lastWrite, access>>

\* the drain, the release of slot n raising: nothing catches it
DrainFails ==
    /\ pc = "drain"
    /\ \E n \in DOMAIN video_writers :
         /\ video_writers[n] # None
         /\ video_writers' = DrainLoop(video_writers, n)
    /\ pc' = "crashed"
    /\ error' = "release"
    /\ UNCHANGED <<SYSTEM_OS, stopAt, env, stop_event, regions, rects, i, lastWrite, access>>

\* ---------------------------------------------------------------- UI thread

\* OverlayWindow.closeEvent: self.stop_event.set()
closeEvent ==
    /\ ~stop_event
    /\ stop_event' = TRUE
    /\ access' = access \cup {<<"ui", "write", "stop_event">>}
    /\ stopAt' = IF pc = "slot"
                 THEN [ordinal |-> i,
                       empty |-> i < PoolSize /\ video_writers[SlotOf(i)] = None]
                 ELSE NotInTick
    /\ UNCHANGED <<SYSTEM_OS, env, regions, pc, error, rects, i, video_writers, lastWrite>>

\* OverlayWindow.paintEvent: for r in self.regions
paintEvent ==
    /\ ~stop_event
    /\ access' = access \cup {<<"ui", "read", "regions">>}
    /\ UNCHANGED <<SYSTEM_OS, stopAt, env, stop_event, regions, pc, error, rects, i, video_writers, lastWrite>>

\* ------------------------------------------------------------- the desktop

\* one change of the desktop, taken between two ticks
EnvStep ==
    /\ pc = "loop"
    /\ envSteps < MaxEnvSteps
    /\ envSteps' = envSteps + 1
    /\ UNCHANGED <<SYSTEM_OS, stopAt, stop_event, regions, pc, error, rects, i, video_writers, lastWrite, access>>

\* the user moves a window: GetWindowRect's left and top change
MoveWindow ==
    /\ EnvStep
    /\ \E hwnd \in Hwnds, c \in Corners :
         /\ windows[hwnd].status = "shown"
         /\ <<windows[hwnd].left, windows[hwnd].top>> # c
         /\ windows' = [windows EXCEPT ![hwnd].left = c[1], ![hwnd].top = c[2]]
    /\ UNCHANGED zorder

\* the user resizes a window: GetWindowRect's width and height change
ResizeWindow ==
    /\ EnvStep
    /\ \E hwnd \in Hwnds, s \in Sizes :
         /\ windows[hwnd].status = "shown"
         /\ <<windows[hwnd].width, windows[hwnd].height>> # s
         /\ windows' = [windows EXCEPT ![hwnd].width = s[1], ![hwnd].height = s[2]]
    /\ UNCHANGED zorder

\* a window is closed, minimized, or shown (again)
SetStatus ==
    /\ EnvStep
    /\ \E hwnd \in Hwnds, st \in {"shown", "minimized", "closed"} :
         /\ windows[hwnd].status # st
         /\ windows' = [windows EXCEPT ![hwnd].status = st]
    /\ UNCHANGED zorder

\* a window's title changes: it equals the query or only contains it
Retitle ==
    /\ EnvStep
    /\ \E hwnd \in Hwnds :
         windows' = [windows EXCEPT ![hwnd].exact = ~windows[hwnd].exact]
    /\ UNCHANGED zorder

\* a window is activated: it becomes the first of the enumeration
ActivateWindow ==
    /\ EnvStep
    /\ \E k \in 2..Len(zorder) :
         /\ zorder[k] \in Hwnds
         /\ zorder' = <<zorder[k]>> \o SubSeq(zorder, 1, k - 1) \o SubSeq(zorder, k + 1, Len(zorder))
    /\ UNCHANGED windows

\* ------------------------------------------------------------ specification

\* a tiled desktop of the windows hwnds, each of the size s
Tiled(hwnds, s) ==
    [hwnd \in hwnds |->
        [status |-> "shown", exact |-> TRUE,
         left |-> TileCorner(hwnd)[1], top |-> TileCorner(hwnd)[2],
         width |-> s[1], height |-> s[2]]]

\* a desktop with one window open: the others of Tiled(hwnds, s) are closed
Lone(hwnds, s) ==
    [hwnd \in hwnds |->
        IF hwnd = 1 THEN Tiled(hwnds, s)[hwnd]
        ELSE [Tiled(hwnds, s)[hwnd] EXCEPT !.status = "closed"]]

\* more windows than the pool has slots
CrowdHwnds == 1..(PoolSize + ExtraWindows)

InitProgram ==
    /\ SYSTEM_OS \in Platforms
    /\ zorder = [k \in 1..Cardinality(DOMAIN windows) |-> k]
    /\ envSteps = 0
    /\ stop_event = FALSE
    /\ regions = <<>>
    /\ pc = "loop"
    /\ error = "none"
    /\ rects = <<>>
    /\ i = 0
    /\ video_writers = [n \in 0..(PoolSize - 1) |-> None]
    /\ lastWrite = NoWrite
    /\ access = {}
    /\ stopAt = NotInTick

Init ==
    /\ \E s \in Sizes : windows \in {Tiled(Hwnds, s), Lone(Hwnds, s), Tiled(CrowdHwnds, s)}
    /\ InitProgram

Next ==
    \/ BeginTick
    \/ SlotWrite
    \/ SlotFails
    \/ SlotIndexError
    \/ Sleep
    \/ BeginDrain
    \/ Drain
    \/ DrainFails
    \/ closeEvent
    \/ paintEvent
    \/ MoveWindow
    \/ ResizeWindow
    \/ SetStatus
    \/ Retitle
    \/ ActivateWindow

Spec == Init /\ [][Next]_vars

\* the desktops find_windows is applied to: every placement of the windows
\* FindHwnds on FindCorners, shown or minimized, enumerated in the order of
\* their handles; the odd handles have the expected size, the even ones not
FindHwnds == 1..MaxFindWindows

FindSize(hwnd) == IF hwnd % 2 = 1 THEN <<EXPECTED_WIDTH, EXPECTED_HEIGHT>> ELSE <<200, 300>>

FindDesktops ==
    {[hwnd \in FindHwnds |->
         [status |-> st[hwnd], exact |-> TRUE, left |-> c[hwnd][1], top |-> c[hwnd][2],
          width |-> FindSize(hwnd)[1], height |-> FindSize(hwnd)[2]]] :
     st \in [FindHwnds -> {"shown", "minimized"}], c \in [FindHwnds -> FindCorners]}

InitFind ==
    /\ windows \in FindDesktops
    /\ InitProgram

\* the first tick of the capture loop: find_windows, then the slots in order
NextFind == BeginTick \/ SlotWrite

SpecFind == InitFind /\ [][NextFind]_vars

\* ------------------------------------------------------------------ claims

Slots == 0..(PoolSize - 1)
Initialized == {n \in Slots : video_writers[n].init}

\* C1: every frame written to slot i's writer has the pixel dimensions the
\* writer was created with, also when the window's size has changed since
\* (stated for win32, where the corrective resize changes it).
C1_FrameMatchesWriter ==
    (SYSTEM_OS = "win32" /\ lastWrite.slot # -1) =>
        /\ lastWrite.w = video_writers[lastWrite.slot].w
        /\ lastWrite.h = video_writers[lastWrite.slot].h

\* C2 (as stated): all frames written to slot i's writer are grabbed from the
\* window that slot i was first bound to (stated for win32, where the list
\* is a function of the desktop).
C2_SameWindow ==
    (SYSTEM_OS = "win32" /\ lastWrite.slot # -1) =>
        lastWrite.hwnd = video_writers[lastWrite.slot].hwnd

\* C2 (amended): a slot is bound to an ordinal of the ordered list: the frame
\* written to slot n is grabbed from the rectangle at ordinal n of the tick's
\* list; on win32 it is the window slot n was first bound to for as long as
\* nothing but the program's own corrective resize has changed the desktop.
C2_OrdinalBound ==
    lastWrite.slot # -1 =>
        /\ lastWrite.slot = i - 1
        /\ lastWrite.hwnd = rects[lastWrite.slot + 1].hwnd
        /\ regions = rects
        /\ (SYSTEM_OS = "win32" /\ envSteps = 0
              => lastWrite.hwnd = video_writers[lastWrite.slot].hwnd)

\* a frame of another window than the slot's first one was written to a slot
C2_Witness ==
    /\ SYSTEM_OS = "win32"
    /\ lastWrite.slot # -1
    /\ lastWrite.hwnd # video_writers[lastWrite.slot].hwnd
    /\ video_writers[lastWrite.slot].written

\* C3: with more than PoolSize rectangles the loop accesses no slot outside
\* the pool and does not stop.
C3_StaysInPool ==
    Len(rects) > PoolSize => error # "IndexError"

\* C4: a failure to grab or write for one slot does not end the tick for the
\* other slots, nor the loop.
C4_FailureIsolated ==
    error = "grab_or_write" => pc # "crashed"

\* C5: once the stop event is set, on every path out of the polling cycle
\* every initialized writer is released.
C5_DrainOnEveryPath ==
    (stop_event /\ pc \in {"done", "crashed"}) =>
        \A n \in Initialized : video_writers[n].released >= 1

\* C6: once the drain step has run, every initialized writer has been released
\* exactly once, and no writer is ever released more than once.
C6_ReleasedExactlyOnce ==
    /\ \A n \in Slots : video_writers[n].released <= 1
    /\ (pc = "done" \/ error = "release") =>
          \A n \in Initialized : video_writers[n].released = 1

\* C7 (as stated): when the stop event is set after slot 0's write and before
\* slot 1's first write, slot 1 remains Empty.
C7_Slot1StaysEmpty ==
    (stopAt.ordinal = 1 /\ stopAt.empty) => video_writers[1] = None

\* C7 (amended): when the stop event is set after slot 0's write and before
\* slot 1's first write, the tick goes on: slot 1's writer is created by the
\* next step of the capture thread, and a drain that runs to its end releases
\* the writers of slot 0 and of slot 1 once each.
C7_TickGoesOn ==
    (stopAt.ordinal = 1 /\ stopAt.empty) =>
        /\ (pc = "slot" /\ i = 1) \/ video_writers[1].init
        /\ pc \in {"drain", "done"} => video_writers[0].init /\ video_writers[1].init
        /\ pc = "done" => video_writers[0].released = 1 /\ video_writers[1].released = 1

\* the stop event was set between the two writes and the drain has closed both
C7_Witness ==
    /\ stopAt.ordinal = 1 /\ stopAt.empty
    /\ pc = "done"
    /\ video_writers[1].written
    /\ video_writers[1].released = 1

\* C8: when the release of one writer fails, the drain still calls release on
\* the writers of the remaining initialized slots.
C8_DrainContinues ==
    error = "release" => \A n \in Initialized : video_writers[n].released >= 1

\* the objects a thread other than t has written, or has read while t wrote
Conflicts(t) ==
    {a[3] : a \in {b \in access : b[1] = t /\ b[2] = "write"}}
      \cap {a[3] : a \in {b \in access : b[1] # t}}

\* C9: the stop event is the only object that one of the two threads writes
\* and the other reads or writes.
C9_OnlyStopEventShared ==
    \A t \in {"ui", "capture"} : Conflicts(t) \subseteq {"stop_event"}

\* C10: once slot n has a writer, no step changes its dimensions or replaces it.
C10_WriterKept ==
    [][\A n \in Slots :
          video_writers[n].init =>
              /\ video_writers'[n].init
              /\ video_writers'[n].w = video_writers[n].w
              /\ video_writers'[n].h = video_writers[n].h
              /\ video_writers'[n].hwnd = video_writers[n].hwnd]_vars

\* a tick has ended in which the rectangle at ordinal n had another size than
\* the writer of slot n, made in an earlier tick
C10_Witness ==
    /\ pc = "sleep"
    /\ \E n \in Initialized :
         /\ n < Len(rects)
         /\ video_writers[n].written
         /\ \/ video_writers[n].w # rects[n + 1].width * Scale(SYSTEM_OS)
            \/ video_writers[n].h # rects[n + 1].height * Scale(SYSTEM_OS)

\* C11: a slot's output file exists only once the slot has received its
\* first frame: every slot that has a writer has had at least one frame
\* written to it. (The writer, and with it the file, is created before the
\* slot's first frame is grabbed.)
C11_FileAfterFirstFrame ==
    \A n \in Slots : video_writers[n].init => video_writers[n].written

\* the orders in which the platform can enumerate the windows
Orders == {o \in [1..Len(zorder) -> DOMAIN windows] :
              \A a, b \in 1..Len(zorder) : a # b => o[a] # o[b]}

\* the windows append_window does not skip
Located == {hwnd \in DOMAIN windows :
               windows[hwnd].status = "shown" /\ windows[hwnd].left > 1 /\ windows[hwnd].top > 1}

\* no two located windows have the same (left, top)
CornersApart ==
    \A a, b \in Located :
        a # b => windows[a].left # windows[b].left \/ windows[a].top # windows[b].top

\* win32's capture loop is about to call find_windows
AtCall == SYSTEM_OS = "win32" /\ pc = "loop"

\* the list win32's find_windows returns when the windows are enumerated in order o
FoundIn(o) == find_windows("win32", o, windows, 0).rects

\* a step of the capture loop in which win32's find_windows returns its list
FindReturns == SYSTEM_OS = "win32" /\ pc = "loop" /\ pc' \in {"slot", "sleep"}

\* C12 as stated: the list find_windows returns to a tick is the list every
\* order of enumeration of the same windows at the same rectangles yields,
\* window by window.
C12_OrderIndependent ==
    [][FindReturns => \A o \in Orders : FoundIn(o) = rects']_vars

\* C12, amended: when no two located windows share a (left, top), the list
\* win32's find_windows returns to a tick is the list every order of
\* enumeration yields, and each index of it is the same window.
C12_OrderIndependentApart ==
    [][FindReturns /\ CornersApart => \A o \in Orders : FoundIn(o) = rects']_vars

\* find_windows has returned two windows in the reverse of their enumeration
C12_Witness ==
    /\ SYSTEM_OS = "win32" /\ pc = "slot" /\ CornersApart
    /\ Len(rects) >= 2 /\ rects[1].hwnd > rects[2].hwnd
    /\ \E o \in Orders : o # zorder /\ FoundIn(o) = rects

\* the rectangles of the list rs are all right of and below pixel 1
OffEdge(rs) == \A k \in 1..Len(rs) : rs[k].left > 1 /\ rs[k].top > 1

\* C13: no rectangle with left <= 1 or top <= 1 is in the list find_windows
\* returns, whatever the order of enumeration, and no slot is initialized for
\* a window at such a position; when every window is at such a position the
\* list is empty and no slot has a writer.
C13_NoEdgeRect ==
    /\ AtCall => \A o \in Orders : OffEdge(FoundIn(o))
    /\ OffEdge(rects) /\ OffEdge(regions)
    /\ \A n \in Initialized :
           windows[video_writers[n].hwnd].left > 1 /\ windows[video_writers[n].hwnd].top > 1
    /\ (pc # "loop" /\ \A hwnd \in DOMAIN windows : windows[hwnd].left <= 1 \/ windows[hwnd].top <= 1)
           => rects = <<>> /\ Initialized = {}

\* a tick has located and recorded one window and left out a shown window at (0, 0)
C13_Witness ==
    /\ pc = "sleep" /\ Len(rects) = 1 /\ video_writers[0].written
    /\ \E hwnd \in DOMAIN windows :
           windows[hwnd].status = "shown" /\ windows[hwnd].left = 0 /\ windows[hwnd].top = 0

\* the first window enumerated in order o, shown, at the position (x, y)
\* (0 when there is none)
FirstAt(o, x, y) ==
    LET at == SelectSeq(o, LAMBDA hwnd : windows[hwnd].status = "shown"
                                         /\ windows[hwnd].left = x /\ windows[hwnd].top = y)
    IN IF at = <<>> THEN 0 ELSE Head(at)

\* the list rs has pairwise distinct (left, top), and each rectangle of it is
\* that of the first window enumerated in order o at its position
FirstKept(rs, o) ==
    /\ \A a, b \in 1..Len(rs) : a # b => rs[a].left # rs[b].left \/ rs[a].top # rs[b].top
    /\ \A k \in 1..Len(rs) : rs[k].hwnd = FirstAt(o, rs[k].left, rs[k].top)

\* C14: for every sequence of discovered windows the list find_windows
\* returns has pairwise distinct (left, top) pairs, and the rectangle kept
\* for a position is that of the first window enumerated at that position.
C14_FirstAtCornerKept ==
    /\ AtCall => \A o \in Orders : FirstKept(FoundIn(o), o)
    /\ (SYSTEM_OS = "win32" /\ pc # "loop") => FirstKept(rects, zorder)
    /\ \A a, b \in 1..Len(rects) : a # b => rects[a].left # rects[b].left \/ rects[a].top # rects[b].top

\* find_windows has returned a list that leaves out a located window because
\* an earlier one is at its position, and the tick has recorded the earlier one
C14_Witness ==
    /\ SYSTEM_OS = "win32" /\ pc = "sleep" /\ rects # <<>>
    /\ \E a, b \in Located :
          /\ a < b /\ windows[a].left = windows[b].left /\ windows[a].top = windows[b].top
          /\ \E n \in Initialized : video_writers[n].hwnd = a /\ video_writers[n].written
          /\ \A k \in 1..Len(rects) : rects[k].hwnd # b

\* the rectangles of all the windows, in the order o
RectsOf(o) ==
    [k \in 1..Len(o) |-> [left |-> windows[o[k]].left, top |-> windows[o[k]].top,
                          width |-> windows[o[k]].width, height |-> windows[o[k]].height,
                          hwnd |-> o[k]]]

\* the list rs is in ascending (top, left) order
Ascending(rs) ==
    \A k \in 1..(Len(rs) - 1) :
        \/ rs[k].top < rs[k+1].top
        \/ rs[k].top = rs[k+1].top /\ rs[k].left <= rs[k+1].left

\* C15: the list find_windows returns is in ascending (top, left) order, and
\* ordering an ordered list returns the same list: for every list L of
\* rectangles, two at one position included, order(order(L)) = order(L).
C15_OrderedAndIdempotent ==
    /\ Ascending(rects) /\ Sort(rects) = rects
    /\ AtCall => \A o \in Orders :
          /\ Ascending(FoundIn(o)) /\ Sort(FoundIn(o)) = FoundIn(o)
          /\ Ascending(Sort(RectsOf(o))) /\ Sort(Sort(RectsOf(o))) = Sort(RectsOf(o))

\* find_windows has returned two windows of different rows, the lower one
\* enumerated first and further left
C15_Witness ==
    /\ SYSTEM_OS = "win32" /\ pc = "slot" /\ Len(rects) >= 2
    /\ rects[1].hwnd > rects[2].hwnd
    /\ rects[1].top < rects[2].top /\ rects[1].left > rects[2].left

C17_EmptyTickGoesOn ==
    [][/\ (pc = "loop" /\ pc' # "loop" /\ ~stop_event
              /\ (Located = {} \/ (pc' # "crashed" /\ rects' = <<>>)))
          => /\ pc' = "sleep" /\ error' = "none"
             /\ rects' = <<>> /\ regions' = <<>>
             /\ video_writers' = video_writers /\ lastWrite' = NoWrite
       /\ (pc = "sleep" /\ rects = <<>> /\ pc' # pc)
          => pc' = "loop" /\ error' = "none" /\ video_writers' = video_writers]_vars

\* on win32 a tick has located no window, the one it had recorded being
\* gone, and the loop is at its next test of stop_event, the writer kept
C17_Witness ==
    /\ SYSTEM_OS = "win32" /\ pc = "loop" /\ ~stop_event /\ error = "none"
    /\ Located = {} /\ rects = <<>> /\ regions = <<>>
    /\ video_writers[0].written /\ video_writers[0].released = 0

\* C18: the corrective resize of win32 is best-effort: when resize_window
\* finds no window of exactly the queried title at a located rectangle's
\* (left, top), find_windows still returns its list and the capture loop
\* goes on; the failed correction ends neither the tick nor the thread.
C18_FailedResizeGoesOn == ~(pc = "crashed" /\ error = "resize_window")

\* C19: once the drain has started, or any writer has been released, no
\* writer is created and no frame is written: no frame is ever written to a
\* released writer.
C19_NoWriteAfterDrain ==
    [][(pc \in {"drain", "done"} \/ \E n \in Slots : video_writers[n].released > 0)
          => /\ lastWrite' = lastWrite
             /\ \A n \in Slots : /\ video_writers'[n].init = video_writers[n].init
                                 /\ video_writers'[n].written = video_writers[n].written]_vars

\* the drain has released the writers of a run that was stopped in the
\* middle of a tick with two windows
C19_Witness ==
    /\ pc = "done" /\ stopAt.ordinal # -1 /\ lastWrite.slot = 1
    /\ \A n \in {0, 1} : video_writers[n].written /\ video_writers[n].released = 1

\* C20: in every reachable state of capture_loop the initialized slots are a
\* prefix of the pool: when slot n has a writer, every slot below n has one.
C20_InitializedPrefix ==
    \A n \in Slots : video_writers[n].init => \A m \in 0..(n - 1) : video_writers[m].init

\* slots 0 and 1 have writers and a later tick has found one window only
C20_Witness ==
    /\ pc = "sleep" /\ Len(rects) = 1 /\ lastWrite.slot = 0
    /\ video_writers[0].written /\ video_writers[1].written /\ ~video_writers[2].init

====
